---- MODULE Spec2Model ----
(***************************************************************************)
(* Model of src/anki_bot.py: SimpleAnkiBot, a single-recipient reminder    *)
(* bot.  The bot keeps no per-day state in memory: the only state that     *)
(* decides its behaviour is the status file completion_status.json         *)
(* (date -> true) and the Moscow clock.  The entry points are the three    *)
(* scheduled coroutines (send_daily_reminder, send_followup_reminder,      *)
(* reset_daily_flags) and the photo handler handle_image_message.  They    *)
(* run on one asyncio event loop: a coroutine gives up control only at     *)
(* its await of the outbound send, so the code before that await is one    *)
(* step with respect to the other coroutines; only the wall clock moves    *)
(* under it.  handle_image_message reads the clock three times (lines      *)
(* 173, 119 and 125), so it is split at those reads.                       *)
(***************************************************************************)
EXTENDS Integers, FiniteSets, Sequences, TLC

\* ---------------------------------------------------------------- bounds
\* Calendar dates are 1..MaxDate; the clock starts on date 1.
MaxDate == 2
\* Entry-point invocations the environment makes on one calendar date.
MaxCalls == 3

Dates == 1..MaxDate
Kinds == {"primary", "followup", "congratulation"}
\* Outcomes of the write in save_completion_status: it succeeds, open() for
\* writing fails (file untouched), or the dump fails after open(.., 'w')
\* truncated the file (what is left is not valid JSON).  A fourth outcome,
\* "killed", is the process dying between the truncation and the end of the
\* dump: it leaves the same file and no handler to catch anything.
SaveOutcomes == {"ok", "openfail", "writefail"}
\* Outcomes of the Telegram call inside send_message_with_image.
SendOutcomes == {"ok", "fail"}
Chats == {"target", "other"}
\* Values of the environment variables TELEGRAM_TOKEN and CHAT_ID; "" stands
\* for unset or empty (both are falsy at lines 40 and 42).
Tokens == {"", "token"}
ChatIds == {"", "abc", "42"}

VARIABLES
    today,        \* date part of get_moscow_time()
    file,         \* completion_status.json: [kind, status]
    pcDaily,      \* send_daily_reminder: "idle" | "sending" (awaiting line 214)
    pcFollow,     \* send_followup_reminder: "idle" | "sending" (awaiting line 233)
    pcImage,      \* handle_image_message: "idle" | "L179" | "L184" | "sending"
    current_date, \* handle_image_message's local current_date (line 174); 0 when idle
    update,       \* the Update being handled: [chat, photo, date]; date is the
                  \* message's own date (update.message.date), which no line reads
    tested,       \* date is_completed_today tested for the running handler (line 119); 0 if none
    marked,       \* date the running handle_image_message wrote at line 127; 0 if none
    calls,        \* entry-point invocations made on the current date
    fresh,        \* no entry point has run in this process instance yet
    requests,     \* requests[k][d]: sends of kind k requested for date d
    outbox,       \* kinds of the sends requested on the current date, in order
    congratsFor,  \* congratsFor[d]: congratulations requested by a handler whose current_date is d
    activity,     \* activity[d]: a qualifying event was handled on d without error
    last,         \* outcome of the entry point that finished last, and whether
                  \* the process was fresh at the step that finished it
    env,          \* os.environ: [token, chat] (TELEGRAM_TOKEN, CHAT_ID; "" = unset or empty)
    proc,         \* the process: "init" (main not yet run) | "running" | "exited"
    scheduled,    \* the three cron jobs are registered and the scheduler started
    testSent,     \* this process instance sent its start-up test message (line 319)
    exitcode      \* exit status of the process; -1 while it has not exited

vars == <<today, file, pcDaily, pcFollow, pcImage, current_date, update, tested, marked, calls,
          fresh, requests, outbox, congratsFor, activity, last,
          env, proc, scheduled, testSent, exitcode>>
procVars == <<env, proc, scheduled, testSent, exitcode>>

\* ------------------------------------------------------------ the store
AbsentFile == [kind |-> "absent", status |-> {}]
CorruptFile == [kind |-> "corrupt", status |-> {}]
OkFile(status) == [kind |-> "ok", status |-> status]

\* load_completion_status: the mapping read, or an exception.  Only
\* FileNotFoundError is handled (-> {}); a file that is not valid JSON raises.
load_forgets(f) == [raised |-> f.kind = "corrupt", status |-> {}]
load_completion_status(f) ==
    [raised |-> f.kind = "corrupt",
     status |-> IF f.kind = "ok" THEN f.status ELSE {}]

\* save_completion_status: open(status_file, 'w') then json.dump.
save_completion_status(f, status, outcome) ==
    CASE outcome = "ok" -> OkFile(status)
      [] outcome = "openfail" -> f
      [] outcome = "writefail" -> CorruptFile
      [] outcome = "killed" -> CorruptFile

\* The clock: get_moscow_time().date().
get_moscow_time(t) == t

\* is_completed_today, given that the load did not raise:
\* status.get(current_date, False).
is_completed_never(f, d) == FALSE
is_completed_today(f, d) == d \in load_completion_status(f).status

\* mark_completed_today, given that the load did not raise: the mapping that
\* is handed to save_completion_status.
mark_completed_today(f, d) == load_completion_status(f).status \cup {d}

\* send_message_with_image: whether the Telegram call's exception reaches the
\* caller.  The whole body is inside try/except Exception: it never does.
send_propagates_failure(outcome) == outcome = "fail"
send_message_with_image(outcome) == FALSE

\* ------------------------------------------------------------- helpers
Request(req, k, d) == [req EXCEPT ![k][d] = @ + 1]
Outcome(op, out) == [op |-> op, out |-> out, fresh |-> fresh]
\* The synchronous stretch of handle_image_message (lines 173-192): no other
\* coroutine of the event loop runs inside it.
Sync == pcImage \in {"L179", "L184"}

NoUpdate == [chat |-> "none", photo |-> FALSE, date |-> 0]
\* An Update's message date is the date it was sent: today, or the day before
\* when it waited at Telegram (start_polling at line 323 fetches the updates
\* that arrived while the bot was down or busy).
MessageDates(t) == {d \in Dates : d = t \/ d = t - 1}

Init ==
    /\ today = 1
    /\ file = AbsentFile
    /\ pcDaily = "idle"
    /\ pcFollow = "idle"
    /\ pcImage = "idle"
    /\ current_date = 0
    /\ update = NoUpdate
    /\ tested = 0
    /\ marked = 0
    /\ calls = 0
    /\ fresh = TRUE
    /\ requests = [k \in Kinds |-> [d \in Dates |-> 0]]
    /\ outbox = <<>>
    /\ congratsFor = [d \in Dates |-> 0]
    /\ activity = [d \in Dates |-> FALSE]
    /\ last = [op |-> "none", out |-> "none", fresh |-> TRUE]
    /\ env \in [token : Tokens, chat : ChatIds]
    /\ proc = "init"
    /\ scheduled = FALSE
    /\ testSent = FALSE
    /\ exitcode = -1

\* ------------------------------------------------------ the environment
\* Midnight in Europe/Moscow passes.
Tick ==
    /\ today < MaxDate
    /\ today' = today + 1
    /\ calls' = 0
    /\ outbox' = <<>>
    /\ UNCHANGED <<file, pcDaily, pcFollow, pcImage, current_date, update, tested, marked, fresh,
                   requests, congratsFor, activity, last>>
    /\ UNCHANGED procVars

\* The process dies and a new instance starts: every coroutine in flight is
\* gone; nothing else was held in memory.
Restart ==
    /\ ~fresh \/ proc = "exited"
    /\ pcDaily' = "idle"
    /\ pcFollow' = "idle"
    /\ pcImage' = "idle"
    /\ current_date' = 0 /\ update' = NoUpdate /\ tested' = 0
    /\ marked' = 0
    /\ fresh' = TRUE
    /\ proc' = "init"
    /\ scheduled' = FALSE
    /\ testSent' = FALSE
    /\ exitcode' = -1
    /\ UNCHANGED <<today, file, calls, requests, outbox, congratsFor, activity, last, env>>

\* ---------------------------------------------------------------- main
\* SimpleAnkiBot.__init__, lines 36-48: whether the constructor raises
\* ValueError.  int() accepts "42" and rejects "abc".
init_raises(e) == e.token = "" \/ e.chat = "" \/ e.chat \notin {"42"}

\* main and the __main__ block, lines 359-388.  A ValueError of the
\* constructor is caught by main's "except Exception" (line 375), which only
\* logs; bot_instance is still None, so the finally does nothing, main
\* returns, asyncio.run returns and the interpreter exits with status 0
\* (sys.exit(1) at line 388 is reached only by an exception leaving main).
\* Otherwise start_bot registers the jobs, starts the scheduler (lines
\* 293-294) and sends the test message (line 319).
main ==
    /\ proc = "init"
    /\ IF init_raises(env)
       THEN /\ proc' = "exited"
            /\ exitcode' = 0
            /\ UNCHANGED <<scheduled, testSent>>
       ELSE /\ proc' = "running"
            /\ scheduled' = TRUE
            /\ testSent' = TRUE
            /\ UNCHANGED exitcode
    /\ UNCHANGED <<today, file, pcDaily, pcFollow, pcImage, current_date, update, tested, marked,
                   calls, fresh, requests, outbox, congratsFor, activity, last, env>>

\* ------------------------------------------------- send_daily_reminder
\* Lines 198-214 up to the await: the logging line 203 and the test at line
\* 206 both call is_completed_today, outside any try.
send_daily_reminder ==
    /\ proc = "running"
    /\ ~Sync /\ pcDaily = "idle" /\ calls < MaxCalls
    /\ calls' = calls + 1
    /\ fresh' = FALSE
    /\ IF load_completion_status(file).raised
       THEN /\ last' = Outcome("daily", "raised")
            /\ UNCHANGED <<requests, outbox, pcDaily>>
       ELSE IF is_completed_today(file, get_moscow_time(today))
       THEN /\ last' = Outcome("daily", "skipped")
            /\ UNCHANGED <<requests, outbox, pcDaily>>
       ELSE /\ requests' = Request(requests, "primary", get_moscow_time(today))
            /\ outbox' = Append(outbox, "primary")
            /\ pcDaily' = "sending"
            /\ UNCHANGED last
    /\ UNCHANGED <<today, file, pcFollow, pcImage, current_date, update, tested, marked,
                   congratsFor, activity>>
    /\ UNCHANGED procVars

\* Lines 214-215: the awaited send returns.
daily_send_done ==
    /\ ~Sync /\ pcDaily = "sending"
    /\ \E outcome \in SendOutcomes:
         last' = Outcome("daily",
                         IF send_message_with_image(outcome) THEN "raised"
                         ELSE IF outcome = "ok" THEN "sent" ELSE "sendfail")
    /\ pcDaily' = "idle"
    /\ UNCHANGED <<today, file, pcFollow, pcImage, current_date, update, tested, marked, calls,
                   fresh, requests, outbox, congratsFor, activity>>
    /\ UNCHANGED procVars

\* ---------------------------------------------- send_followup_reminder
\* Lines 217-233 up to the await.
followup_ignores_status ==
    /\ proc = "running"
    /\ ~Sync /\ pcFollow = "idle" /\ calls < MaxCalls
    /\ calls' = calls + 1
    /\ fresh' = FALSE
    /\ IF load_completion_status(file).raised
       THEN /\ last' = Outcome("followup", "raised")
            /\ UNCHANGED <<requests, outbox, pcFollow>>
       ELSE /\ requests' = Request(requests, "followup", get_moscow_time(today))
            /\ outbox' = Append(outbox, "followup")
            /\ pcFollow' = "sending"
            /\ UNCHANGED last
    /\ UNCHANGED <<today, file, pcDaily, pcImage, current_date, update, tested, marked,
                   congratsFor, activity>>
    /\ UNCHANGED procVars
send_followup_reminder ==
    /\ proc = "running"
    /\ ~Sync /\ pcFollow = "idle" /\ calls < MaxCalls
    /\ calls' = calls + 1
    /\ fresh' = FALSE
    /\ IF load_completion_status(file).raised
       THEN /\ last' = Outcome("followup", "raised")
            /\ UNCHANGED <<requests, outbox, pcFollow>>
       ELSE IF is_completed_today(file, get_moscow_time(today))
       THEN /\ last' = Outcome("followup", "skipped")
            /\ UNCHANGED <<requests, outbox, pcFollow>>
       ELSE /\ requests' = Request(requests, "followup", get_moscow_time(today))
            /\ outbox' = Append(outbox, "followup")
            /\ pcFollow' = "sending"
            /\ UNCHANGED last
    /\ UNCHANGED <<today, file, pcDaily, pcImage, current_date, update, tested, marked,
                   congratsFor, activity>>
    /\ UNCHANGED procVars

\* Lines 233-234.
followup_send_done ==
    /\ ~Sync /\ pcFollow = "sending"
    /\ \E outcome \in SendOutcomes:
         last' = Outcome("followup",
                         IF send_message_with_image(outcome) THEN "raised"
                         ELSE IF outcome = "ok" THEN "sent" ELSE "sendfail")
    /\ pcFollow' = "idle"
    /\ UNCHANGED <<today, file, pcDaily, pcImage, current_date, update, tested, marked, calls,
                   fresh, requests, outbox, congratsFor, activity>>
    /\ UNCHANGED procVars

\* --------------------------------------------------- reset_daily_flags
\* Lines 236-238: one log line.
reset_deletes_file ==
    /\ proc = "running"
    /\ ~Sync /\ calls < MaxCalls
    /\ calls' = calls + 1
    /\ fresh' = FALSE
    /\ file' = AbsentFile
    /\ last' = Outcome("midnight", "noop")
    /\ UNCHANGED <<today, pcDaily, pcFollow, pcImage, current_date, update, tested, marked,
                   requests, outbox, congratsFor, activity>>
    /\ UNCHANGED procVars
reset_daily_flags ==
    /\ proc = "running"
    /\ ~Sync /\ calls < MaxCalls
    /\ calls' = calls + 1
    /\ fresh' = FALSE
    /\ last' = Outcome("midnight", "noop")
    /\ UNCHANGED <<today, file, pcDaily, pcFollow, pcImage, current_date, update, tested, marked,
                   requests, outbox, congratsFor, activity>>
    /\ UNCHANGED procVars

\* ------------------------------------------------ handle_image_message
\* Lines 160-176: the two guards, then the first clock reading.
handle_any_chat ==
    /\ proc = "running"
    /\ pcImage = "idle" /\ calls < MaxCalls
    /\ calls' = calls + 1
    /\ fresh' = FALSE
    /\ \E chat \in Chats, photo \in BOOLEAN, date \in MessageDates(today):
         IF ~photo
         THEN /\ last' = Outcome("image", "ignored")
              /\ UNCHANGED <<pcImage, current_date, update>>
         ELSE /\ pcImage' = "L179"
              /\ current_date' = get_moscow_time(today)
              /\ update' = [chat |-> chat, photo |-> photo, date |-> date]
              /\ UNCHANGED last
    /\ UNCHANGED tested
    /\ UNCHANGED <<today, file, pcDaily, pcFollow, marked, requests, outbox,
                   congratsFor, activity>>
    /\ UNCHANGED procVars
handle_image_message ==
    /\ proc = "running"
    /\ pcImage = "idle" /\ calls < MaxCalls
    /\ calls' = calls + 1
    /\ fresh' = FALSE
    /\ \E chat \in Chats, photo \in BOOLEAN, date \in MessageDates(today):
         IF chat # "target" \/ ~photo
         THEN /\ last' = Outcome("image", "ignored")
              /\ UNCHANGED <<pcImage, current_date, update>>
         ELSE /\ pcImage' = "L179"
              /\ current_date' = get_moscow_time(today)
              /\ update' = [chat |-> chat, photo |-> photo, date |-> date]
              /\ UNCHANGED last
    /\ UNCHANGED tested
    /\ UNCHANGED <<today, file, pcDaily, pcFollow, marked, requests, outbox,
                   congratsFor, activity>>
    /\ UNCHANGED procVars

\* Lines 178-181: is_completed_today reads the clock again (line 119).
image_is_completed ==
    /\ pcImage = "L179"
    /\ IF load_completion_status(file).raised
       THEN /\ last' = Outcome("image", "error")
            /\ pcImage' = "idle" /\ current_date' = 0 /\ update' = NoUpdate /\ tested' = 0
            /\ UNCHANGED activity
       ELSE IF is_completed_today(file, get_moscow_time(today))
       THEN /\ last' = Outcome("image", "duplicate")
            /\ pcImage' = "idle" /\ current_date' = 0 /\ update' = NoUpdate /\ tested' = 0
            /\ activity' = [activity EXCEPT ![current_date] = TRUE]
       ELSE /\ pcImage' = "L184"
            /\ tested' = get_moscow_time(today)
            /\ UNCHANGED <<last, current_date, update, activity>>
    /\ UNCHANGED <<today, file, pcDaily, pcFollow, marked, calls, fresh,
                   requests, outbox, congratsFor>>
    /\ UNCHANGED procVars

\* Lines 183-192 up to the await: mark_completed_today reads the clock a
\* third time (line 125), loads, sets and saves; then the congratulation is
\* requested.  An exception of the save is caught at line 195.
image_mark ==
    /\ pcImage = "L184"
    /\ \E outcome \in SaveOutcomes:
         /\ file' = save_completion_status(
                        file, mark_completed_today(file, get_moscow_time(today)), outcome)
         /\ IF outcome = "ok"
            THEN /\ marked' = get_moscow_time(today)
                 /\ requests' = Request(requests, "congratulation", get_moscow_time(today))
                 /\ outbox' = Append(outbox, "congratulation")
                 /\ congratsFor' = [congratsFor EXCEPT ![current_date] = @ + 1]
                 /\ activity' = [activity EXCEPT ![current_date] = TRUE]
                 /\ pcImage' = "sending"
                 /\ UNCHANGED <<last, current_date, update, tested>>
            ELSE /\ last' = Outcome("image", "error")
                 /\ pcImage' = "idle" /\ current_date' = 0 /\ update' = NoUpdate /\ tested' = 0
                 /\ UNCHANGED <<marked, requests, outbox, congratsFor, activity>>
    /\ UNCHANGED <<today, pcDaily, pcFollow, calls, fresh>>
    /\ UNCHANGED procVars

\* The process is killed inside save_completion_status (lines 114-115), after
\* open(.., 'w') truncated the file and before json.dump finished.
image_mark_killed ==
    /\ pcImage = "L184"
    /\ file' = save_completion_status(
                   file, mark_completed_today(file, get_moscow_time(today)), "killed")
    /\ pcDaily' = "idle"
    /\ pcFollow' = "idle"
    /\ pcImage' = "idle" /\ current_date' = 0 /\ update' = NoUpdate /\ tested' = 0
    /\ marked' = 0
    /\ fresh' = TRUE
    /\ proc' = "init"
    /\ scheduled' = FALSE
    /\ testSent' = FALSE
    /\ exitcode' = -1
    /\ UNCHANGED <<today, calls, requests, outbox, congratsFor, activity, last, env>>

\* Lines 192-193: the awaited send returns.
image_send_rollback ==
    /\ pcImage = "sending"
    /\ \E outcome \in SendOutcomes:
         /\ last' = Outcome("image", IF outcome = "ok" THEN "completed" ELSE "sendfail")
         /\ file' = IF outcome = "ok" THEN file
                    ELSE OkFile(file.status \ {marked})
    /\ pcImage' = "idle" /\ current_date' = 0 /\ update' = NoUpdate /\ tested' = 0 /\ marked' = 0
    /\ UNCHANGED <<today, pcDaily, pcFollow, calls, fresh, requests, outbox,
                   congratsFor, activity>>
    /\ UNCHANGED procVars
image_send_done ==
    /\ pcImage = "sending"
    /\ \E outcome \in SendOutcomes:
         last' = Outcome("image",
                         IF send_message_with_image(outcome) THEN "error"
                         ELSE IF outcome = "ok" THEN "completed" ELSE "sendfail")
    /\ pcImage' = "idle" /\ current_date' = 0 /\ update' = NoUpdate /\ tested' = 0 /\ marked' = 0
    /\ UNCHANGED <<today, file, pcDaily, pcFollow, calls, fresh, requests, outbox,
                   congratsFor, activity>>
    /\ UNCHANGED procVars

Next ==
    \/ Tick
    \/ Restart
    \/ main
    \/ send_daily_reminder
    \/ daily_send_done
    \/ send_followup_reminder
    \/ followup_send_done
    \/ reset_daily_flags
    \/ handle_image_message
    \/ image_is_completed
    \/ image_mark
    \/ image_mark_killed
    \/ image_send_done

Spec == Init /\ [][Next]_vars

\* ----------------------------------------------------------------- claims

\* C1: for every date D, however often the daily trigger runs on D (same
\* process or across a restart), at most one primary reminder is sent for D.
C1_AtMostOnePrimaryPerDate ==
    \A d \in Dates: requests["primary"][d] <= 1

\* C2: the follow-up trigger sends a follow-up reminder if and only if, at
\* call time, the primary reminder has been sent for today and today is not
\* completed.
C2_FollowupIffRemindedAndNotCompleted ==
    [][send_followup_reminder =>
         ((requests'["followup"][today] = requests["followup"][today] + 1)
            <=> (requests["primary"][today] > 0 /\ today \notin file.status))]_vars

C4_OneCongratulationPerDate ==
    [][\A d \in Dates:
         /\ congratsFor'[d] <= 1
         /\ (Sync /\ current_date = d /\ congratsFor[d] >= 1)
              => (file' = file /\ requests' = requests)]_vars

\* C5: when the status file holds completed(today) and a fresh process
\* instance runs the daily or the follow-up trigger, the trigger skips: no
\* reminder is requested.
C5_CompletionSurvivesRestart ==
    [][(fresh /\ today \in file.status
          /\ (send_daily_reminder \/ send_followup_reminder))
         => (requests' = requests /\ last'.out = "skipped")]_vars

\* C5 witness: a fresh process instance ran the daily trigger and skipped it.
C5_Witness ==
    /\ last = [op |-> "daily", out |-> "skipped", fresh |-> TRUE]
    /\ today \in file.status

\* C6: while the date is D, once completed(D) is true no step (trigger,
\* inbound event, send completion, restart) makes it false again or requests
\* a primary or follow-up reminder for D.
C6_DoneIsTerminal ==
    [][(today \in file.status /\ today' = today)
         => /\ today \in file'.status
            /\ requests'["primary"][today] = requests["primary"][today]
            /\ requests'["followup"][today] = requests["followup"][today]]_vars

\* C6 witness: today is completed, a later qualifying event was handled as a
\* duplicate, and no reminder was requested today.
C6_Witness ==
    /\ today \in file.status
    /\ last.op = "image" /\ last.out = "duplicate"
    /\ requests["primary"][today] = 0 /\ requests["followup"][today] = 0

\* C7: the midnight trigger changes nothing the other entry points read or
\* emit (so firing it zero, one or several times gives the same reminders),
\* and whenever the date changes the new date starts Pending: not completed
\* and with nothing sent for it.
C7_MidnightTriggerNotNeeded ==
    [][/\ reset_daily_flags =>
            /\ file' = file /\ requests' = requests /\ congratsFor' = congratsFor
            /\ <<pcDaily, pcFollow, pcImage>>' = <<pcDaily, pcFollow, pcImage>>
       /\ today' # today =>
            /\ today' \notin file'.status
            /\ \A k \in Kinds: requests'[k][today'] = 0]_vars

\* C7 witness: date 1 ended Done, date 2 began, and the one entry point run
\* on date 2 was the midnight trigger.
C7_Witness ==
    /\ today = 2 /\ file = OkFile({1})
    /\ calls = 1 /\ ~fresh
    /\ pcDaily = "idle" /\ pcFollow = "idle" /\ pcImage = "idle"
    /\ last.op = "midnight"

\* C8: the return of an outbound send, failed or not, changes neither the
\* status file nor the requests made (no rollback, no re-attempt), leaves
\* the date the handler marked completed, and no error leaves the entry
\* point; and no date ever gets a second congratulation.
C8_SendFailureChangesNoState ==
    /\ [](\A d \in Dates: requests["congratulation"][d] <= 1)
    /\ [][(daily_send_done \/ followup_send_done \/ image_send_done)
            => /\ file' = file /\ requests' = requests
               /\ last'.out \in {"sent", "completed", "sendfail"}
               /\ (pcImage = "sending" /\ pcImage' = "idle") => marked \in file'.status]_vars

\* C8 witness: the congratulation for today failed to send and today is
\* still completed.
C8_Witness ==
    /\ last.op = "image" /\ last.out = "sendfail"
    /\ today \in file.status
    /\ requests["congratulation"][today] = 1

\* C9: no entry point ever lets an error reach its caller.
C9_NoErrorPropagates ==
    last.out # "raised"

\* C10: when the status file cannot be read (corrupt) and nothing else
\* records a completion of today (the daily trigger is the first entry point
\* to run today), the daily trigger still requests the primary reminder.
C10_ReadFailureStillReminds ==
    [][(send_daily_reminder /\ file.kind = "corrupt" /\ calls = 0)
         => requests'["primary"][today] = requests["primary"][today] + 1]_vars

\* C11: a configuration error at start-up (TELEGRAM_TOKEN missing, CHAT_ID
\* missing or not an integer) is fatal: no job is scheduled, no message is
\* sent, and the process ends with a non-zero exit code.
C11_ConfigErrorIsFatal ==
    (init_raises(env) /\ proc = "exited")
        => (~scheduled /\ ~testSent /\ exitcode # 0)

\* C12: an inbound event from another chat, or without a photo, is discarded:
\* it leaves the status file unchanged and requests no send; only a photo
\* from the configured chat is ever handled further.
C12_OnlyConfiguredChatWithPhoto ==
    /\ [](pcImage # "idle" => (update.chat = "target" /\ update.photo))
    /\ [][(handle_image_message /\ pcImage' = "idle")
            => /\ file' = file /\ requests' = requests /\ outbox' = outbox
               /\ congratsFor' = congratsFor /\ activity' = activity]_vars

\* C12 witness: an event was discarded while the status file held a completion.
C12_Witness ==
    /\ last.op = "image" /\ last.out = "ignored"
    /\ file.kind = "ok" /\ file.status # {}

\* C13: the date a handler records as completed is the calendar date of the
\* event it handles (the message's own date), not the date of a later clock
\* reading.
C13_MarksDateOfEvent ==
    marked # 0 => marked = update.date

C15_NoActivityDay ==
    [][/\ (send_daily_reminder /\ calls = 0 /\ pcImage = "idle" /\ ~activity[today])
            => outbox' = <<"primary">>
       /\ (send_followup_reminder /\ calls = 1 /\ outbox = <<"primary">>)
            => outbox' = <<"primary", "followup">>]_vars

\* C16: the entry points are serialized: between the handler's completion
\* test and its write no other entry point changes the status file (the date
\* tested is still not completed when the write happens), and the
\* qualifying events of one date get exactly one congratulation.
C16_EntryPointsSerialized ==
    /\ pcImage = "L184" => tested \notin file.status
    /\ \A d \in Dates: congratsFor[d] <= 1

\* C17: in every reachable state, crash and restart included, a
\* congratulation having been requested for a date implies that the status
\* file holds that date as completed.
C17_WriteBeforeAcknowledge ==
    \A d \in Dates: requests["congratulation"][d] > 0 => d \in file.status

\* C18: within one handling of a qualifying event the date tested for
\* "already completed" (line 119) and the date marked completed (line 125)
\* are the same date, midnight or not.
C18_TestedDateIsMarkedDate ==
    marked # 0 => marked = tested

\* C19: a crash inside save_completion_status leaves the status file with the
\* complete old mapping or the complete new one: it stays readable and no
\* date already recorded is lost.
C19_CrashInSaveKeepsMapping ==
    [][image_mark_killed
         => \/ file' = file
            \/ (file'.kind = "ok" /\ file.status \subseteq file'.status)]_vars

TypeOK ==
    /\ today \in Dates
    /\ file.kind \in {"absent", "ok", "corrupt"}
    /\ file.status \subseteq Dates
    /\ pcDaily \in {"idle", "sending"}
    /\ pcFollow \in {"idle", "sending"}
    /\ pcImage \in {"idle", "L179", "L184", "sending"}
    /\ current_date \in 0..MaxDate
    /\ marked \in 0..MaxDate
    /\ calls \in 0..MaxCalls
    /\ fresh \in BOOLEAN
    /\ update.chat \in Chats \cup {"none"}
    /\ update.date \in 0..MaxDate
    /\ tested \in 0..MaxDate
    /\ Len(outbox) <= MaxCalls
    /\ proc \in {"init", "running", "exited"}
    /\ scheduled \in BOOLEAN /\ testSent \in BOOLEAN
    /\ exitcode \in {-1, 0, 1}
====
